---- MODULE Spec2Model ----
(***************************************************************************)
(* E-paper kiosk: the partial-refresh proxy (EpdPartialProxy), the frame   *)
(* sequencer (ImageSequencer), the transit fetch (get_bus_arrival) and the *)
(* day/night control loop (main).                                          *)
(*                                                                         *)
(* The specifications share the state:                                     *)
(*   SpecProxy   the proxy alone, its methods called in any order with any *)
(*               outcome of the hardware calls;                            *)
(*   Spec        main(): the control loop driving the proxy, the sequencer *)
(*               and the transit screen, with SIGTERM and                  *)
(*               KeyboardInterrupt arriving at any point;                  *)
(*   SpecHours   is_sleep_hours on every window and hour;                  *)
(*   SpecEta     one slot of the feed, a timestamp around now;             *)
(*   SpecFetch   get_bus_arrival on one response;                          *)
(*   SpecRetry   the HTTP attempts of one get_bus_arrival call;            *)
(*   SpecSeq     the sequencer alone, its methods called in any order;     *)
(*   SpecTransit show_bus_arrivals after the frames of a day iteration.    *)
(***************************************************************************)
EXTENDS Integers, Sequences, FiniteSets

VARIABLES
    _enabled,        \* EpdPartialProxy._enabled        (main.py:48)
    _full_every_n,   \* EpdPartialProxy._full_every_n   (main.py:49)
    _call_count,     \* EpdPartialProxy._call_count     (main.py:50)
    _base_set,       \* EpdPartialProxy._base_set       (main.py:51)
    IMAGES_PER_CYCLE,\* main.py:116
    _paths,          \* ImageSequencer._paths, as the number of frames found
    _index,          \* ImageSequencer._index
    _shutdown,       \* main.py:128
    pc,              \* position of main() (or "proxy" under SpecProxy)
    loop_i,          \* main.py:172
    frame_i,         \* the `for _ in range(...)` counter of main.py:211
    waited,          \* _wait_with_sigterm: number of slices slept
    exc,             \* how the while loop of main() was left
    uncaught,        \* an exception leaves main() after the finally block
    hw,              \* hardware calls issued by the latest step, in order
    op,              \* proxy method entered by the latest step ("" if none)
    raised,          \* the latest proxy method call raised to its caller
    fullSince,       \* observer: a raw display() completed since the raw
                     \* sleep()/init()/Clear() that completed last
    nth,             \* observer: present() calls since the one that
                     \* established the baseline; -1 when none has since
                     \* the last init() that returned or Clear() call
    observed,        \* observer: main() has read _shutdown as true
    sigAt,           \* observer: pc at which SIGTERM was delivered
    sigWaited,       \* observer: `waited` when SIGTERM was delivered
    sigLoop,         \* observer: loop_i when SIGTERM was delivered
    teardown,        \* observer: hardware calls issued since the loop exit
    initFailed,      \* observer: a re-init epd.init() of main() has raised
    arg,             \* the input of the function or step under study
    ret              \* its result ([done |-> FALSE] until it has run)

vars == <<_enabled, _full_every_n, _call_count, _base_set, IMAGES_PER_CYCLE,
          _paths, _index, _shutdown, pc, loop_i, frame_i, waited, exc,
          uncaught, hw, op, raised, fullSince, nth, observed, sigAt,
          sigWaited, sigLoop, teardown, initFailed, arg, ret>>

\* main()'s own variables, left alone by the single functions
mainVarsFn == <<_enabled, _full_every_n, IMAGES_PER_CYCLE, _paths, _index,
                _shutdown, pc, loop_i, frame_i, waited, exc, uncaught,
                observed, sigAt, sigWaited, sigLoop, teardown, initFailed>>

\* left alone by the proxy and by main(): used by the specifications of the
\* single functions
fnVars == <<arg, ret>>

-----------------------------------------------------------------------------
(* Bounds of the model *)

\* largest PARTIAL_FULL_EVERY_N tried (the smallest is -1)
MaxFullEveryN == 3
\* present() calls in a row without init()/Clear() under SpecProxy
MaxPresents == 6
\* iterations of the while loop of main()
MaxLoops == 2
\* slices of 0.5 s that make up a configured wait interval
WaitSlices == 2
\* largest number of frames discovery finds
MaxFrames == 2
\* largest IMAGES_PER_CYCLE tried (the smallest is 0)
MaxImages == 2

-----------------------------------------------------------------------------
(* Hardware calls: the raw driver behind the proxy.  Any call may fail.    *)

Call(name, ok) == [op |-> name, ok |-> ok]

Ops(calls) == {calls[i].op : i \in 1..Len(calls)}

\* number of calls of one kind in a sequence
RECURSIVE CountOp(_, _)
CountOp(calls, name) ==
    IF calls = <<>> THEN 0
    ELSE (IF Head(calls).op = name THEN 1 ELSE 0) + CountOp(Tail(calls), name)

\* fullSince after the calls, in order
RECURSIVE FullAfter(_, _)
FullAfter(fs, calls) ==
    IF calls = <<>> THEN fs
    ELSE LET c == Head(calls) IN
         FullAfter(IF c.ok /\ c.op \in {"sleep", "init", "Clear"} THEN FALSE
                   ELSE IF c.ok /\ c.op = "display" THEN TRUE
                   ELSE fs,
                   Tail(calls))

\* some displayPartial among the calls is issued with no completed display
\* since the last completed sleep/init/Clear
RECURSIVE BlindPartial(_, _)
BlindPartial(fs, calls) ==
    IF calls = <<>> THEN FALSE
    ELSE \/ Head(calls).op = "displayPartial" /\ ~fs
         \/ BlindPartial(FullAfter(fs, <<Head(calls)>>), Tail(calls))

-----------------------------------------------------------------------------
(* EpdPartialProxy.  Each method is a function of the proxy state and of   *)
(* the outcomes of the hardware calls it makes; its result is the calls    *)
(* issued, the new proxy state and whether it raised.                      *)

Result(calls, base, count, rs) ==
    [calls |-> calls, base |-> base, count |-> count, raised |-> rs]

\* __init__: max(0, int(full_every_n))
ClampFullEveryN(n) == IF n > 0 THEN n ELSE 0

\* init(): delegate, then reset (the reset is skipped when the driver raises)
ProxyInit_KeepsCount(bs, cc, ok) ==
    IF ok THEN Result(<<Call("init", TRUE)>>, FALSE, cc, FALSE)
    ELSE Result(<<Call("init", FALSE)>>, bs, cc, TRUE)

ProxyInit(bs, cc, ok) ==
    IF ok THEN Result(<<Call("init", TRUE)>>, FALSE, 0, FALSE)
    ELSE Result(<<Call("init", FALSE)>>, bs, cc, TRUE)

\* Clear(): reset, then delegate
ProxyClear(bs, cc, ok) ==
    Result(<<Call("Clear", ok)>>, FALSE, 0, ~ok)

\* sleep(): pass-through
ProxySleep(bs, cc, ok) ==
    Result(<<Call("sleep", ok)>>, bs, cc, ~ok)

\* display(), first frame after init/Clear: full refresh, then try to prime
\* the partial base (a failure of that call is swallowed)
FirstFrame_BaseRaises(bs, cc, okD, okB) ==
    IF okD
    THEN Result(<<Call("display", TRUE), Call("displayPartBaseImage", okB)>>,
                okB, IF okB THEN 1 ELSE cc, ~okB)
    ELSE Result(<<Call("display", FALSE)>>, bs, cc, TRUE)

FirstFrame(bs, cc, okD, okB) ==
    IF okD
    THEN Result(<<Call("display", TRUE), Call("displayPartBaseImage", okB)>>,
                TRUE, 1, FALSE)
    ELSE Result(<<Call("display", FALSE)>>, bs, cc, TRUE)

\* display(), the forced-full test on the incremented counter c
ForcedFull_BeforeIncrement(n, c) == n # 0 /\ (c - 1) % n = 0

ForcedFull_EveryCall(n, c) == n # 0

ForcedFull(n, c) == n # 0 /\ c % n = 0

PeriodicFull_ResetsCount(bs, c, okD, okB) ==
    IF okD
    THEN Result(<<Call("display", TRUE), Call("displayPartBaseImage", okB)>>,
                bs, 1, FALSE)
    ELSE Result(<<Call("display", FALSE)>>, bs, c, TRUE)

\* display(), periodic full refresh; c is the incremented counter
PeriodicFull(bs, c, okD, okB) ==
    IF okD
    THEN Result(<<Call("display", TRUE), Call("displayPartBaseImage", okB)>>,
                bs, c, FALSE)
    ELSE Result(<<Call("display", FALSE)>>, bs, c, TRUE)

\* display(), fast path: partial refresh, falling back to a full one
FastPath_FallbackDropsBase(bs, c, okD, okP) ==
    IF okP
    THEN Result(<<Call("displayPartial", TRUE)>>, bs, c, FALSE)
    ELSE Result(<<Call("displayPartial", FALSE), Call("display", okD)>>,
                FALSE, c, ~okD)

FastPath(bs, c, okD, okP) ==
    IF okP
    THEN Result(<<Call("displayPartial", TRUE)>>, bs, c, FALSE)
    ELSE Result(<<Call("displayPartial", FALSE), Call("display", okD)>>,
                bs, c, ~okD)

ProxyDisplay_IgnoresEnabled(en, n, bs, cc, okD, okB, okP) ==
    IF ~bs THEN FirstFrame(bs, cc, okD, okB)
    ELSE IF ForcedFull(n, cc + 1) THEN PeriodicFull(bs, cc + 1, okD, okB)
    ELSE FastPath(bs, cc + 1, okD, okP)

\* display(buf); okD, okB, okP: outcome of the raw display,
\* displayPartBaseImage and displayPartial calls, where made
ProxyDisplay(en, n, bs, cc, okD, okB, okP) ==
    IF ~en THEN Result(<<Call("display", okD)>>, bs, cc, ~okD)
    ELSE IF ~bs THEN FirstFrame(bs, cc, okD, okB)
    ELSE IF ForcedFull(n, cc + 1) THEN PeriodicFull(bs, cc + 1, okD, okB)
    ELSE FastPath(bs, cc + 1, okD, okP)

\* the observer `nth` across one proxy method call
NthAfter(n, method, r) ==
    CASE method = "Clear" -> -1
      [] method = "init" -> IF r.raised THEN n ELSE -1
      [] method = "display" -> IF n = -1 THEN (IF r.raised THEN -1 ELSE 0)
                               ELSE n + 1
      [] OTHER -> n

\* the proxy state and the observers after a method call with result r
Apply(method, r) ==
    /\ _base_set' = r.base
    /\ _call_count' = r.count
    /\ hw' = r.calls
    /\ op' = method
    /\ raised' = r.raised
    /\ fullSince' = FullAfter(fullSince, r.calls)
    /\ nth' = NthAfter(nth, method, r)

-----------------------------------------------------------------------------
(* SpecProxy: the proxy's methods in any order *)

FullEveryNValues == -1..MaxFullEveryN

InitCommon ==
    /\ _enabled \in BOOLEAN
    /\ \E n \in FullEveryNValues : _full_every_n = ClampFullEveryN(n)
    /\ _call_count = 0
    /\ _base_set = FALSE
    /\ _index = 0
    /\ _shutdown = FALSE
    /\ loop_i = 0
    /\ frame_i = 0
    /\ waited = 0
    /\ exc = "none"
    /\ uncaught = FALSE
    /\ hw = <<>>
    /\ op = ""
    /\ raised = FALSE
    /\ fullSince = FALSE
    /\ nth = -1
    /\ observed = FALSE
    /\ sigAt = "none"
    /\ sigWaited = 0
    /\ sigLoop = 0
    /\ teardown = <<>>
    /\ initFailed = FALSE

InitProxy ==
    /\ InitCommon
    /\ arg = <<>>
    /\ ret = [done |-> FALSE]
    /\ IMAGES_PER_CYCLE = 0
    /\ _paths = 0
    /\ pc = "proxy"

mainVars == <<_enabled, _full_every_n, IMAGES_PER_CYCLE, _paths, _index,
              _shutdown, pc, loop_i, frame_i, waited, exc, uncaught,
              observed, sigAt, sigWaited, sigLoop, teardown, initFailed,
              arg, ret>>

CallInit ==
    /\ pc = "proxy"
    /\ \E ok \in BOOLEAN : Apply("init", ProxyInit(_base_set, _call_count, ok))
    /\ UNCHANGED mainVars

CallClear ==
    /\ pc = "proxy"
    /\ \E ok \in BOOLEAN : Apply("Clear", ProxyClear(_base_set, _call_count, ok))
    /\ UNCHANGED mainVars

CallSleep ==
    /\ pc = "proxy"
    /\ \E ok \in BOOLEAN : Apply("sleep", ProxySleep(_base_set, _call_count, ok))
    /\ UNCHANGED mainVars

CallDisplay ==
    /\ pc = "proxy"
    /\ nth < MaxPresents
    /\ \E okD, okB, okP \in BOOLEAN :
          Apply("display", ProxyDisplay(_enabled, _full_every_n, _base_set,
                                        _call_count, okD, okB, okP))
    /\ UNCHANGED mainVars

NextProxy == CallInit \/ CallClear \/ CallSleep \/ CallDisplay

SpecProxy == InitProxy /\ [][NextProxy]_vars

-----------------------------------------------------------------------------
(* ImageSequencer *)

\* _paths is the number of frames found; the frames are numbered 1.._paths
\* in sorted order and _index is 0-based

Reload_KeepsIndex(found, idx) == idx

\* reload(): re-scan (found frames) and keep the index within bounds
Reload(found, idx) == IF found > 0 THEN idx % found ELSE 0

Advance_NoWrap(n, idx) == IF n = 0 THEN idx ELSE idx + 1

\* advance()
Advance(n, idx) == IF n = 0 THEN idx ELSE (idx + 1) % n

\* self._paths[self._index]
PathAt(idx) == idx + 1

\* current_path(): None without frames, else the frame at the index
current_path(n, idx) ==
    IF n = 0 THEN [none |-> TRUE, path |-> 0]
    ELSE [none |-> FALSE, path |-> PathAt(idx)]

-----------------------------------------------------------------------------
(* main(): configuration and helpers *)

SLEEP_START_H == 0
SLEEP_END_H == 8

Hours == 0..23

is_sleep_hours_InclusiveEnd(h, start, end) ==
    IF start > end THEN h >= start \/ h <= end
    ELSE start <= h /\ h <= end

is_sleep_hours(h, start, end) ==
    IF start > end THEN h >= start \/ h < end
    ELSE start <= h /\ h < end

FramesPerCycle_PlusTwo(k) == k + 2

\* range(max(1, IMAGES_PER_CYCLE))
FramesPerCycle(k) == IF k > 1 THEN k ELSE 1

\* a call inside `try: ... except Exception: logging.exception(...)`:
\* main() goes on at `next` whether or not the call raised
Caught_NoHandler(rs, next) ==
    IF rs THEN [pc |-> "finally_clear", exc |-> "Exception"]
    ELSE [pc |-> next, exc |-> "none"]

Caught(rs, next) == [pc |-> next, exc |-> "none"]

\* a call of the loop body outside any try/except: an exception leaves the
\* while loop for the finally block
Escapes(rs, next) ==
    IF rs THEN [pc |-> "finally_clear", exc |-> "Exception"]
    ELSE [pc |-> next, exc |-> "none"]

\* finally: `try: epd.Clear() except Exception: pass`, then the release
AfterClear_Unguarded(rs) == IF rs THEN "done" ELSE "finally_exit"

AfterClear(rs) == "finally_exit"

\* what get_bus_arrival gives for one stop: "unset" when the stop code is not
\* configured, "raises" for a body that is not of the expected shape
FetchResults == {"unset", "empty", "data", "raises"}

\* show_bus_arrivals up to the render: "return" (nothing to show), "raise"
\* or "render"
TransitOutcome(ra, rb, rc) ==
    IF ra = "unset" /\ rb = "unset" /\ rc = "unset" THEN "return"
    ELSE IF "raises" \in {ra, rb, rc} THEN "raise"
    ELSE IF "data" \notin {ra, rb, rc} THEN "return"
    ELSE "render"

cfgVars == <<_enabled, _full_every_n, IMAGES_PER_CYCLE>>
seqVars == <<_paths, _index>>
sigVars == <<_shutdown, sigAt, sigWaited, sigLoop>>

\* a step that calls no proxy method
NoCall ==
    /\ hw' = <<>>
    /\ op' = ""
    /\ raised' = FALSE
    /\ UNCHANGED <<_base_set, _call_count, fullSince, nth>>

\* epd.display(...) through the proxy, any hardware outcome
Display(r) == Apply("display", r)

DisplayResults ==
    {ProxyDisplay(_enabled, _full_every_n, _base_set, _call_count, okD, okB, okP) :
        okD \in BOOLEAN, okB \in BOOLEAN, okP \in BOOLEAN}

TryPcs == {"loop_top", "night_show", "night_sleep", "night_wait",
           "night_slice", "night_init", "day_frames", "day_bus", "day_sleep",
           "day_wait", "day_slice", "day_init"}

-----------------------------------------------------------------------------
(* main(): the steps *)

Init ==
    /\ InitCommon
    /\ arg = <<>>
    /\ ret = [done |-> FALSE]
    /\ IMAGES_PER_CYCLE \in 0..MaxImages
    /\ _paths \in 0..MaxFrames
    /\ pc = "loop_top"

\* `while not _shutdown:` and the mode decision
LoopTop ==
    /\ pc = "loop_top"
    /\ IF _shutdown
       THEN /\ pc' = "finally_clear"
            /\ exc' = "shutdown"
            /\ observed' = TRUE
            /\ UNCHANGED <<loop_i, frame_i>>
       ELSE /\ loop_i < MaxLoops
            /\ loop_i' = loop_i + 1
            /\ \E hour \in Hours :
                  pc' = IF is_sleep_hours(hour, SLEEP_START_H, SLEEP_END_H)
                        THEN "night_show" ELSE "day_frames"
            /\ frame_i' = 0
            /\ UNCHANGED <<exc, observed>>
    /\ NoCall
    /\ UNCHANGED <<fnVars, cfgVars, seqVars, sigVars, initFailed, waited, uncaught, teardown>>

\* night: displayImages.show_sleep(epd) inside try/except; show_image itself
\* returns False when sleep.bmp is missing or cannot be drawn
NightShow ==
    /\ pc = "night_show"
    /\ \E drawn \in BOOLEAN :
          IF drawn THEN \E r \in DisplayResults : Display(r) ELSE NoCall
    /\ LET t == Caught(FALSE, "night_sleep") IN pc' = t.pc /\ exc' = t.exc
    /\ UNCHANGED <<fnVars, cfgVars, seqVars, sigVars, initFailed, loop_i, frame_i, waited,
                   uncaught, observed, teardown>>

\* `try: epd.sleep() except Exception`, night and day
PanelSleep(at, next) ==
    /\ pc = at
    /\ \E ok \in BOOLEAN :
          LET r == ProxySleep(_base_set, _call_count, ok)
              t == Caught(r.raised, next)
          IN /\ Apply("sleep", r)
             /\ pc' = t.pc
             /\ exc' = t.exc
    /\ waited' = 0
    /\ UNCHANGED <<fnVars, cfgVars, seqVars, sigVars, initFailed, loop_i, frame_i, uncaught,
                   observed, teardown>>

NightSleep == PanelSleep("night_sleep", "night_wait")

DaySleep == PanelSleep("day_sleep", "day_wait")

\* _wait_with_sigterm: `while waited < seconds and not _shutdown`
WaitGoesOn_IgnoresFlag(w, sd) == w < WaitSlices

WaitGoesOn(w, sd) == w < WaitSlices /\ ~sd

\* _wait_with_sigterm: the loop condition
WaitCheck(at, slice, next) ==
    /\ pc = at
    /\ IF WaitGoesOn(waited, _shutdown)
       THEN pc' = slice /\ UNCHANGED observed
       ELSE /\ pc' = next
            /\ observed' = (observed \/ (waited < WaitSlices /\ _shutdown))
    /\ NoCall
    /\ UNCHANGED <<fnVars, cfgVars, seqVars, sigVars, initFailed, loop_i, frame_i, waited, exc,
                   uncaught, teardown>>

\* _wait_with_sigterm: one slice, time.sleep(min(step, ...)); waited += step
WaitSlice(at, back) ==
    /\ pc = at
    /\ waited' = waited + 1
    /\ pc' = back
    /\ NoCall
    /\ UNCHANGED <<fnVars, cfgVars, seqVars, sigVars, initFailed, loop_i, frame_i, exc, uncaught,
                   observed, teardown>>

NightWaitCheck == WaitCheck("night_wait", "night_slice", "night_init")

NightWaitSlice == WaitSlice("night_slice", "night_wait")

DayWaitCheck == WaitCheck("day_wait", "day_slice", "day_init")

DayWaitSlice == WaitSlice("day_slice", "day_wait")

Reinit_IgnoresShutdown(at) ==
    /\ pc = at
    /\ \E ok \in BOOLEAN :
          LET r == ProxyInit(_base_set, _call_count, ok)
              t == Caught(r.raised, "loop_top")
          IN /\ Apply("init", r)
             /\ pc' = t.pc
             /\ exc' = t.exc
             /\ initFailed' = (initFailed \/ r.raised)
    /\ UNCHANGED <<fnVars, cfgVars, seqVars, sigVars, loop_i, frame_i, waited,
                   uncaught, observed, teardown>>

\* `if not _shutdown: try: epd.init() except Exception`, night and day
Reinit(at) ==
    /\ pc = at
    /\ IF _shutdown
       THEN /\ NoCall
            /\ observed' = TRUE
            /\ pc' = "loop_top"
            /\ UNCHANGED <<exc, initFailed>>
       ELSE /\ \E ok \in BOOLEAN :
                  LET r == ProxyInit(_base_set, _call_count, ok)
                      t == Caught(r.raised, "loop_top")
                  IN /\ Apply("init", r)
                     /\ pc' = t.pc
                     /\ exc' = t.exc
                     /\ initFailed' = (initFailed \/ r.raised)
            /\ UNCHANGED observed
    /\ UNCHANGED <<fnVars, cfgVars, seqVars, sigVars, loop_i, frame_i, waited,
                   uncaught, teardown>>

NightReinit == Reinit("night_init")

DayReinit == Reinit("day_init")

\* day: one pass of `for _ in range(max(1, IMAGES_PER_CYCLE))`:
\* `if _shutdown: break`, else show_image_loop (reload when there are no
\* frames, then show_next: draw the current frame and advance, the display
\* error caught inside show_next)
DayFrame ==
    /\ pc = "day_frames"
    /\ frame_i < FramesPerCycle(IMAGES_PER_CYCLE)
    /\ IF _shutdown
       THEN /\ observed' = TRUE
            /\ pc' = "day_bus"
            /\ NoCall
            /\ UNCHANGED <<seqVars, frame_i>>
       ELSE /\ \E found \in 0..MaxFrames :
                  LET n == IF _paths > 0 THEN _paths ELSE found
                      i == IF _paths > 0 THEN _index ELSE Reload(found, _index)
                  IN /\ _paths' = n
                     /\ _index' = Advance(n, i)
                     /\ IF n = 0 THEN NoCall
                        ELSE \E opened \in BOOLEAN :
                                IF opened
                                THEN \E r \in DisplayResults : Display(r)
                                ELSE NoCall
            /\ frame_i' = frame_i + 1
            /\ UNCHANGED <<pc, observed>>
    /\ UNCHANGED <<fnVars, cfgVars, sigVars, initFailed, loop_i, waited, exc, uncaught, teardown>>

\* the for loop is exhausted
DayFramesDone ==
    /\ pc = "day_frames"
    /\ frame_i >= FramesPerCycle(IMAGES_PER_CYCLE)
    /\ pc' = "day_bus"
    /\ NoCall
    /\ UNCHANGED <<fnVars, cfgVars, seqVars, sigVars, initFailed, loop_i, frame_i, waited, exc,
                   uncaught, observed, teardown>>

\* day: displayBuses.show_bus_arrivals(epd), outside any try/except
DayBus ==
    /\ pc = "day_bus"
    /\ \E ra \in FetchResults, rb \in FetchResults, rc \in FetchResults :
          LET o == TransitOutcome(ra, rb, rc) IN
          CASE o = "return" ->
                 /\ NoCall
                 /\ pc' = "day_sleep"
                 /\ UNCHANGED exc
            [] o = "raise" ->
                 LET t == Escapes(TRUE, "day_sleep")
                 IN NoCall /\ pc' = t.pc /\ exc' = t.exc
            [] o = "render" ->
                 \E buffered \in BOOLEAN :
                    IF buffered
                    THEN \E r \in DisplayResults :
                            LET t == Escapes(r.raised, "day_sleep")
                            IN Display(r) /\ pc' = t.pc /\ exc' = t.exc
                    ELSE LET t == Escapes(TRUE, "day_sleep")
                         IN NoCall /\ pc' = t.pc /\ exc' = t.exc
    /\ UNCHANGED <<fnVars, cfgVars, seqVars, sigVars, initFailed, loop_i, frame_i, waited,
                   uncaught, observed, teardown>>

\* Ctrl-C anywhere in the try body
KeyboardInterrupt ==
    /\ pc \in TryPcs
    /\ pc' = "finally_clear"
    /\ exc' = "KeyboardInterrupt"
    /\ NoCall
    /\ UNCHANGED <<fnVars, cfgVars, seqVars, sigVars, initFailed, loop_i, frame_i, waited,
                   uncaught, observed, teardown>>

\* _handle_term: SIGTERM sets the flag
SigTerm ==
    /\ pc \in TryPcs \cup {"finally_clear", "finally_exit"}
    /\ ~_shutdown
    /\ _shutdown' = TRUE
    /\ sigAt' = pc
    /\ sigWaited' = waited
    /\ sigLoop' = loop_i
    /\ NoCall
    /\ UNCHANGED <<fnVars, cfgVars, seqVars, initFailed, pc, loop_i, frame_i,
                   waited, exc, uncaught, observed, teardown>>

\* finally: `try: epd.Clear() except Exception: pass`
FinallyClear ==
    /\ pc = "finally_clear"
    /\ \E ok \in BOOLEAN :
          LET r == ProxyClear(_base_set, _call_count, ok)
          IN /\ Apply("Clear", r)
             /\ teardown' = teardown \o r.calls
             /\ pc' = AfterClear(r.raised)
             /\ uncaught' = (pc' = "done")
    /\ UNCHANGED <<fnVars, cfgVars, seqVars, sigVars, initFailed, loop_i, frame_i, waited, exc,
                   observed>>

\* finally: `try: epd7in5_V2.epdconfig.module_exit(cleanup=True)
\* except Exception: pass`; an exception that left the loop then leaves main()
FinallyExit ==
    /\ pc = "finally_exit"
    /\ \E ok \in BOOLEAN :
          /\ hw' = <<Call("module_exit", ok)>>
          /\ teardown' = Append(teardown, Call("module_exit", ok))
    /\ op' = ""
    /\ raised' = FALSE
    /\ pc' = "done"
    /\ uncaught' = (exc = "Exception")
    /\ UNCHANGED <<_base_set, _call_count, fullSince, nth, fnVars, cfgVars,
                   seqVars,
                   sigVars, initFailed, loop_i, frame_i, waited, exc, observed>>

Next ==
    \/ LoopTop
    \/ NightShow \/ NightSleep \/ NightWaitCheck \/ NightWaitSlice
    \/ NightReinit
    \/ DayFrame \/ DayFramesDone \/ DayBus \/ DaySleep \/ DayWaitCheck
    \/ DayWaitSlice \/ DayReinit
    \/ KeyboardInterrupt \/ SigTerm
    \/ FinallyClear \/ FinallyExit

Spec == Init /\ [][Next]_vars

-----------------------------------------------------------------------------
(* displayBuses.get_bus_arrival                                             *)
(*                                                                         *)
(* A response is [key, http, body]: whether API_KEY is set; what            *)
(* _session.get / raise_for_status / r.json() did ("error" for any          *)
(* requests.RequestException, "badjson" for the ValueError of r.json(),     *)
(* "json"); and the decoded body.  JSON values carry a type tag t:          *)
(*   body     [t : "dict" or another type, services]                        *)
(*   services [t : "absent", "list", "null" or "text", items]               *)
(*   entry    [t : "dict" or another type, no, slots]  (no: ServiceNo)      *)
(*   slot     [t : "none" (key absent, null, {} or no EstimatedArrival),    *)
(*                 "bad" (EstimatedArrival that strptime rejects),          *)
(*                 "time" (a timestamp d whole seconds after now),          *)
(*                 "text" (a slot that is a non-empty non-dict), d]         *)

Max2(a, b) == IF a >= b THEN a ELSE b

\* _clamp_minutes_floor((eta_dt - now).total_seconds() / 60.0) for a
\* timestamp d whole seconds after now
ClampMinutesFloor_Rounds(d) == Max2(0, (d + 30) \div 60)

ClampMinutesFloor(d) == Max2(0, d \div 60)

\* the etas list of one service: an entry per slot, "None" where the
\* timestamp is missing or unparsable
SlotEta(slot) ==
    IF slot.t = "time" THEN [none |-> FALSE, v |-> ClampMinutesFloor(slot.d)]
    ELSE [none |-> TRUE, v |-> 0]

NotNone(e) == ~e.none

\* clean = [e for e in etas if e is not None]; clean[:3]
CleanEtas_KeepsNone(slots) ==
    LET etas == [i \in 1..Len(slots) |-> SlotEta(slots[i])]
    IN [i \in 1..Len(etas) |-> etas[i].v]

CleanEtas(slots) ==
    LET etas  == [i \in 1..Len(slots) |-> SlotEta(slots[i])]
        clean == SelectSeq(etas, NotNone)
        first == SubSeq(clean, 1, IF Len(clean) < 3 THEN Len(clean) ELSE 3)
    IN [i \in 1..Len(first) |-> first[i].v]

\* the loop over the services: out.append((svc_no, clean[:3])) if clean
RECURSIVE Surviving(_)
Surviving(items) ==
    IF items = <<>> THEN <<>>
    ELSE LET clean == CleanEtas(Head(items).slots)
         IN (IF clean # <<>>
             THEN <<[svc |-> Head(items).no, etas |-> clean]>>
             ELSE <<>>) \o Surviving(Tail(items))

\* out.sort(key=lambda t: (t[1][0] if t[1] else 9999))
SortKey(t) == IF t.etas # <<>> THEN t.etas[1] ELSE 9999

\* list.sort is stable: an element goes after those with a key <= its own
InsertStable_BeforeEquals(sorted, x) ==
    LET k == Cardinality({i \in 1..Len(sorted) : SortKey(sorted[i]) < SortKey(x)})
    IN SubSeq(sorted, 1, k) \o <<x>> \o SubSeq(sorted, k + 1, Len(sorted))

InsertStable(sorted, x) ==
    LET k == Cardinality({i \in 1..Len(sorted) : SortKey(sorted[i]) <= SortKey(x)})
    IN SubSeq(sorted, 1, k) \o <<x>> \o SubSeq(sorted, k + 1, Len(sorted))

RECURSIVE SortByFirstEta(_)
SortByFirstEta(out) ==
    IF out = <<>> THEN <<>>
    ELSE InsertStable(SortByFirstEta(SubSeq(out, 1, Len(out) - 1)),
                      out[Len(out)])

\* an exception inside the loop over the services: svc.get on an entry that
\* is not a dict, item.get on a slot that is a non-empty non-dict
LoopRaises(items) ==
    \E i \in 1..Len(items) :
        \/ items[i].t # "dict"
        \/ \E j \in 1..Len(items[i].slots) : items[i].slots[j].t = "text"

Raises == [raised |-> TRUE, out |-> <<>>]

Returns(out) == [raised |-> FALSE, out |-> out]

get_bus_arrival(r) ==
    IF ~r.key THEN Returns(<<>>)
    ELSE IF r.http = "error" THEN Returns(<<>>)
    ELSE IF r.http = "badjson" THEN Returns(<<>>)
    ELSE IF r.body.t # "dict" THEN Raises
    ELSE IF r.body.services.t = "absent" THEN Returns(<<>>)
    ELSE IF r.body.services.t = "null" THEN Raises
    ELSE IF r.body.services.t = "text" THEN Raises
    ELSE IF LoopRaises(r.body.services.items) THEN Raises
    ELSE Returns(SortByFirstEta(Surviving(r.body.services.items)))

-----------------------------------------------------------------------------
(* The single functions: each specification draws the input in its initial  *)
(* states and has one step, the call.  The proxy and main() stand still.    *)

Idle ==
    /\ InitCommon
    /\ _enabled = TRUE
    /\ _full_every_n = 0
    /\ IMAGES_PER_CYCLE = 0
    /\ _paths = 0
    /\ pc = "fn"

Returned(v) == [done |-> TRUE, val |-> v]

\* is_sleep_hours(now) for a window SLEEP_START_H, SLEEP_END_H in 0..23
InitHours ==
    /\ Idle
    /\ arg \in [start : Hours, end : Hours, hour : Hours]
    /\ ret = [done |-> FALSE]

EvalSleepHours ==
    /\ pc = "fn"
    /\ ~ret.done
    /\ ret' = Returned(is_sleep_hours(arg.hour, arg.start, arg.end))
    /\ UNCHANGED <<arg, mainVarsFn, _base_set, _call_count, hw, op, raised,
                   fullSince, nth>>

NextHours == EvalSleepHours

SpecHours == InitHours /\ [][NextHours]_vars

\* the hours of the night window, walking the clock from start up to end
NightHours(start, end) ==
    {(start + k) % 24 : k \in 0..(((end - start) % 24) - 1)}

\* C11: for every window and hour in 0..23, is_sleep_hours is true iff
\* (start > end and (hour >= start or hour < end)) or (start <= end and
\* start <= hour < end), which is the table of the hours walked from start
\* up to end; a window with start = end is never night.
C11_SleepHoursTable ==
    ret.done =>
        /\ ret.val <=>
              \/ arg.start > arg.end
                 /\ (arg.hour >= arg.start \/ arg.hour < arg.end)
              \/ arg.start <= arg.end
                 /\ arg.start <= arg.hour /\ arg.hour < arg.end
        /\ ret.val <=> arg.hour \in NightHours(arg.start, arg.end)
        /\ arg.start = arg.end => ~ret.val

\* C11 witness: 02:00 is night in the wrapping window 22 -> 6.
C11_Witness ==
    /\ ret.done /\ ret.val
    /\ arg = [start |-> 22, end |-> 6, hour |-> 2]

-----------------------------------------------------------------------------
(* One slot of the feed: a timestamp d whole seconds after now *)

MaxSeconds == 150

InitEta ==
    /\ Idle
    /\ arg \in [d : -MaxSeconds..MaxSeconds]
    /\ ret = [done |-> FALSE]

EvalEta ==
    /\ pc = "fn"
    /\ ~ret.done
    /\ ret' = Returned(SlotEta([t |-> "time", d |-> arg.d]))
    /\ UNCHANGED <<arg, mainVarsFn, _base_set, _call_count, hw, op, raised,
                   fullSince, nth>>

NextEta == EvalEta

SpecEta == InitEta /\ [][NextEta]_vars

\* C18: a timestamp d whole seconds after now gives the ETA floor(d / 60)
\* when d >= 0 and 0 when d < 0: a natural number e with
\* 60 e <= d < 60 (e + 1) when d >= 0; now -> 0, 59 s -> 0, 90 s -> 1.
C18_EtaFloorClamp ==
    ret.done =>
        /\ ~ret.val.none
        /\ ret.val.v \in Nat
        /\ arg.d >= 0 => /\ 60 * ret.val.v <= arg.d
                         /\ arg.d < 60 * (ret.val.v + 1)
        /\ arg.d < 0 => ret.val.v = 0
        /\ arg.d = 0 => ret.val.v = 0
        /\ arg.d = 59 => ret.val.v = 0
        /\ arg.d = 90 => ret.val.v = 1

\* C18 witness: a bus 90 seconds away is 1 minute away.
C18_Witness == ret.done /\ arg.d = 90 /\ ret.val.v = 1

-----------------------------------------------------------------------------
(* get_bus_arrival(bus_stop_code) on one response *)

MaxServices == 2

\* timestamps before now, 90 s and 150 s after now
Deltas == {-30, 90, 150}

NoSlot == [t |-> "none", d |-> 0]

BadSlot == [t |-> "bad", d |-> 0]

TextSlot == [t |-> "text", d |-> 0]

TimeSlot(d) == [t |-> "time", d |-> d]

SlotValues == {NoSlot, BadSlot} \cup {TimeSlot(d) : d \in Deltas}

\* NextBus, NextBus2, NextBus3
SlotTriples == [1..3 -> SlotValues]

Service(i, slots) == [t |-> "dict", no |-> i, slots |-> slots]

\* a feed of n services; ServiceNo is the feed position
Feed(n, f) == [i \in 1..n |-> Service(i, f[i])]

ServiceList(items) == [t |-> "list", items |-> items]

NoItems(t) == [t |-> t, items |-> <<>>]

Body(services) == [t |-> "dict", services |-> services]

NoBody == [t |-> "none", services |-> NoItems("absent")]

NotADict == [t |-> "text", no |-> 0, slots |-> <<>>]

Good == Service(1, <<TimeSlot(90), NoSlot, NoSlot>>)

\* bodies that are JSON but not of the expected shape: a top-level list, no
\* Services, Services null or a string, an entry that is not an object, a
\* slot that is a string
OddBodies ==
    {[t |-> "list", services |-> NoItems("absent")],
     Body(NoItems("absent")),
     Body(NoItems("null")),
     Body(NoItems("text")),
     Body(ServiceList(<<NotADict>>)),
     Body(ServiceList(<<Good, NotADict>>)),
     Body(ServiceList(<<Service(1, <<TimeSlot(90), TextSlot, NoSlot>>)>>))}

Response(key, http, body) == [key |-> key, http |-> http, body |-> body]

\* no API_KEY, a RequestException, a body that is not JSON, an odd body
OddResponses ==
    {Response(FALSE, "json", NoBody),
     Response(TRUE, "error", NoBody),
     Response(TRUE, "badjson", NoBody)}
    \cup {Response(TRUE, "json", b) : b \in OddBodies}

NoResponse == Response(FALSE, "none", NoBody)

InitFetch ==
    /\ Idle
    /\ arg = NoResponse
    /\ ret = [done |-> FALSE]

\* one call: the response is what the network hands to this call
Called == pc = "fn" /\ ~ret.done

Fetch(r) ==
    /\ arg' = r
    /\ ret' = Returned(get_bus_arrival(r))
    /\ UNCHANGED <<mainVarsFn, _base_set, _call_count, hw, op, raised,
                   fullSince, nth>>

FetchOdd == Called /\ \E r \in OddResponses : Fetch(r)

FetchFeed ==
    /\ Called
    /\ \E n \in 0..MaxServices : \E f \in [1..n -> SlotTriples] :
          Fetch(Response(TRUE, "json", Body(ServiceList(Feed(n, f)))))

NextFetch == FetchOdd \/ FetchFeed

SpecFetch == InitFetch /\ [][NextFetch]_vars

\* the call has returned a list for a feed of well-formed services
FetchedFeed ==
    /\ ret.done
    /\ ~ret.val.raised
    /\ arg.key /\ arg.http = "json"
    /\ arg.body.t = "dict" /\ arg.body.services.t = "list"

feed == arg.body.services.items

out == ret.val.out

\* the slots of a service that hold a timestamp
Resolvable(slots) == {j \in 1..Len(slots) : slots[j].t = "time"}

\* C13: get_bus_arrival returns a list and raises no exception, whatever
\* the outcome of the request and whatever the body.
C13_FetchNeverRaises == ret.done => ~ret.val.raised

\* floor(d / 60) for d >= 0 and 0 for d < 0, from its defining inequality
WholeMinutes(d) ==
    IF d < 0 THEN 0
    ELSE CHOOSE e \in 0..d : 60 * e <= d /\ d < 60 * (e + 1)

\* C15: each record carries 1 to 3 natural numbers, one per slot of its
\* service that holds a timestamp and in the order of those slots; the other
\* slots contribute nothing, and a service with no such slot has no record.
C15_EtaSlots ==
    FetchedFeed =>
        /\ \A k \in 1..Len(out) :
              LET slots == feed[out[k].svc].slots
                  res   == Resolvable(slots)
                  etas  == out[k].etas
              IN /\ Len(etas) \in 1..3
                 /\ \A i \in 1..Len(etas) : etas[i] \in Nat
                 /\ Len(etas) = Cardinality(res)
                 /\ \A j \in res :
                       etas[Cardinality({i \in res : i <= j})]
                           = WholeMinutes(slots[j].d)
        /\ \A i \in 1..Len(feed) :
              Resolvable(feed[i].slots) = {} =>
                  \A k \in 1..Len(out) : out[k].svc # i

\* C15 witness: a service whose NextBus is unparsable and whose NextBus2 and
\* NextBus3 are 150 s and 90 s away gives the two values 2, 1; a service
\* with no timestamp gives no record.
C15_Witness ==
    /\ FetchedFeed
    /\ Len(feed) = 2
    /\ feed[1].slots = <<BadSlot, TimeSlot(150), TimeSlot(90)>>
    /\ feed[2].slots = <<NoSlot, BadSlot, NoSlot>>
    /\ out = <<[svc |-> 1, etas |-> <<2, 1>>]>>

\* the services of the feed with at least one resolvable slot
Survivors == {i \in 1..Len(feed) : Resolvable(feed[i].slots) # {}}

\* C16: the records are in ascending order of their first ETA, records with
\* the same first ETA are in feed order, and the records are exactly the
\* surviving services, each once.
C16_OrderedBySoonest ==
    FetchedFeed =>
        /\ \A k, l \in 1..Len(out) :
              k < l => /\ out[k].etas[1] <= out[l].etas[1]
                       /\ out[k].etas[1] = out[l].etas[1]
                             => out[k].svc < out[l].svc
        /\ {out[k].svc : k \in 1..Len(out)} = Survivors
        /\ Len(out) = Cardinality(Survivors)

\* C16 witness: the second service of the feed is due first and comes first.
C16_Witness ==
    /\ FetchedFeed
    /\ Len(feed) = 2
    /\ Len(out) = 2
    /\ out[1].svc = 2 /\ out[1].etas[1] = 0
    /\ out[2].svc = 1 /\ out[2].etas[1] = 2

\* C17: the ETA values of each record are non-decreasing.
C17_EtasNonDecreasing ==
    FetchedFeed =>
        \A k \in 1..Len(out) : \A i, j \in 1..Len(out[k].etas) :
            i < j => out[k].etas[i] <= out[k].etas[j]

-----------------------------------------------------------------------------
(* The HTTP attempts of one get_bus_arrival call.  _session.get runs the    *)
(* request through the HTTPAdapter mounted on "https://", whose Retry       *)
(* object (urllib3) counts the retries; every other URL goes through the    *)
(* default adapter, which does not retry.                                   *)

RetryTotal == 3

StatusForcelist_With404 == {404, 429, 500, 502, 503, 504}

StatusForcelist == {429, 500, 502, 503, 504}

\* the outcome of one attempt: a response status, or no response at all
\* (connection error, timeout)
NetError == 0

Statuses == {200, 404, 429, 500, 502, 503, 504}

Outcomes == Statuses \cup {NetError}

\* API_URL: https://..., http://..., or unset (no scheme)
Schemes == {"https", "http", "none"}

\* the retries the adapter of the URL allows
Budget(scheme) == IF scheme = "https" THEN RetryTotal ELSE 0

\* what the Retry object retries: a status of the forcelist, or an attempt
\* that got no response
Retryable(o) == o = NetError \/ o \in StatusForcelist

InitRetry ==
    /\ Idle
    /\ arg \in [key : BOOLEAN, scheme : Schemes]
    /\ ret = [done |-> FALSE, val |-> "", log |-> <<>>]

\* if not api_key: return []; a URL without scheme raises MissingSchema, a
\* RequestException, before anything is sent
NoRequest ==
    /\ Called
    /\ ~arg.key \/ arg.scheme = "none"
    /\ ret' = [done |-> TRUE, val |-> "empty", log |-> ret.log]
    /\ UNCHANGED <<arg, mainVarsFn, _base_set, _call_count, hw, op, raised,
                   fullSince, nth>>

\* one GET and what follows it: the body goes on to r.json(); a retryable
\* outcome within the budget is followed by another GET; anything else is a
\* RequestException (RetryError, ConnectionError, Timeout, or the HTTPError
\* of raise_for_status) and the call returns []
Attempt(o) ==
    /\ Called
    /\ arg.key /\ arg.scheme # "none"
    /\ ret' = IF o = 200
              THEN [done |-> TRUE, val |-> "body", log |-> Append(ret.log, o)]
              ELSE IF Retryable(o) /\ Len(ret.log) < Budget(arg.scheme)
              THEN [done |-> FALSE, val |-> "", log |-> Append(ret.log, o)]
              ELSE [done |-> TRUE, val |-> "empty", log |-> Append(ret.log, o)]
    /\ UNCHANGED <<arg, mainVarsFn, _base_set, _call_count, hw, op, raised,
                   fullSince, nth>>

Request == \E o \in Outcomes : Attempt(o)

NextRetry == NoRequest \/ Request

\* every attempt ends: the GET carries timeout=8
SpecRetry == InitRetry /\ [][NextRetry]_vars /\ WF_vars(NextRetry)

\* the attempts made so far are at most the initial GET and 3 retries; an
\* attempt that got a response was followed by another only after a 429,
\* 500, 502, 503 or 504; a call that ended on anything but a 200 returned []
RetryPolicy ==
    /\ Len(ret.log) <= 1 + 3
    /\ \A i \in 1..(Len(ret.log) - 1) :
          ret.log[i] # NetError => ret.log[i] \in {429, 500, 502, 503, 504}
    /\ (ret.done /\ ret.log # <<>> /\ ret.log[Len(ret.log)] # 200)
          => ret.val = "empty"
    /\ (ret.done /\ ret.log = <<>>) => ret.val = "empty"
    /\ (~ret.done /\ ret.log # <<>>) => arg.scheme = "https"

\* C14: a fetch ends after at most the initial GET and 3 retries; it
\* retries a response only when its status is 429, 500, 502, 503 or 504,
\* returns [] when the budget runs out on such statuses or on network
\* errors and returns [] without a retry on any other non-success status.
C14_BoundedRetries == []RetryPolicy /\ <>ret.done

\* C14 witness: the initial GET and three retries all answered 503 and the
\* call returned [].
C14_Witness ==
    /\ ret.done
    /\ ret.log = <<503, 503, 503, 503>>
    /\ ret.val = "empty"

-----------------------------------------------------------------------------
(* The sequencer on its own: advance(), reload(), show_next() and           *)
(* show_image_loop() in any order, the frames drawn through the proxy.      *)
(* arg remembers the last call (its name, the frames and index before it)   *)
(* and the run of advance() calls made since any other call.                *)

MaxAdvances == 3

Seen(name, start, steps) ==
    [last |-> name, paths0 |-> _paths, index0 |-> _index,
     start |-> start, steps |-> steps]

InitSeq ==
    /\ InitCommon
    /\ IMAGES_PER_CYCLE = 0
    /\ _paths \in 0..MaxFrames
    /\ pc = "seq"
    /\ arg = Seen("", 0, 0)
    /\ ret = [done |-> FALSE]

seqRest == <<cfgVars, sigVars, initFailed, pc, loop_i, frame_i, waited, exc, uncaught,
             observed, teardown>>

SeqAdvance ==
    /\ pc = "seq"
    /\ arg.steps < MaxAdvances
    /\ _index' = Advance(_paths, _index)
    /\ arg' = Seen("advance", arg.start, arg.steps + 1)
    /\ NoCall
    /\ UNCHANGED <<_paths, ret, seqRest>>

SeqReload ==
    /\ pc = "seq"
    /\ \E found \in 0..MaxFrames :
          /\ _paths' = found
          /\ _index' = Reload(found, _index)
    /\ arg' = Seen("reload", _index', 0)
    /\ NoCall
    /\ UNCHANGED <<ret, seqRest>>

\* show_next(epd) with n frames and the index i: nothing without frames,
\* else open and display the current frame and advance, whether or not
\* that raised
ShowNext(n, i) ==
    /\ _index' = Advance(n, i)
    /\ IF n = 0
       THEN NoCall /\ ret' = Returned(FALSE)
       ELSE \E opened \in BOOLEAN :
               IF opened
               THEN \E r \in DisplayResults :
                       Display(r) /\ ret' = Returned(~r.raised)
               ELSE NoCall /\ ret' = Returned(FALSE)

SeqShowNext ==
    /\ pc = "seq"
    /\ nth < MaxPresents
    /\ ShowNext(_paths, _index)
    /\ arg' = Seen("show_next", _index', 0)
    /\ UNCHANGED <<_paths, seqRest>>

\* show_image_loop(epd): reload when there are no frames, then show_next
SeqShowImageLoop ==
    /\ pc = "seq"
    /\ nth < MaxPresents
    /\ \E found \in 0..MaxFrames :
          LET n == IF _paths > 0 THEN _paths ELSE found
              i == IF _paths > 0 THEN _index ELSE Reload(found, _index)
          IN _paths' = n /\ ShowNext(n, i)
    /\ arg' = Seen("show_image_loop", _index', 0)
    /\ UNCHANGED seqRest

NextSeq == SeqAdvance \/ SeqReload \/ SeqShowNext \/ SeqShowImageLoop

SpecSeq == InitSeq /\ [][NextSeq]_vars

\* C19: with count > 0 frames, each advance() moves the cursor to
\* (cursor + 1) mod count and count advance() calls in a row bring it back
\* to where the run started; without frames advance() changes nothing.
C19_AdvanceCycles ==
    /\ arg.last = "advance" =>
          /\ _paths = arg.paths0
          /\ _paths > 0 => _index = (arg.index0 + 1) % _paths
          /\ _paths = 0 => _index = arg.index0
    /\ (_paths > 0 /\ arg.steps = _paths) => _index = arg.start

\* C19 witness: two frames, a run of two advance() calls that started at
\* cursor 1 and is back at cursor 1.
C19_Witness ==
    /\ arg.last = "advance"
    /\ _paths = 2 /\ arg.steps = 2
    /\ arg.start = 1 /\ _index = 1

\* C20: the cursor is below the number of frames whenever there are frames
\* and 0 when there are none; current_path() is None exactly when there are
\* no frames and otherwise the frame at the cursor.
C20_CursorInBounds ==
    /\ _paths > 0 => (0 <= _index /\ _index < _paths)
    /\ _paths = 0 => _index = 0
    /\ current_path(_paths, _index).none <=> _paths = 0
    /\ _paths > 0 => /\ current_path(_paths, _index).path = _index + 1
                     /\ current_path(_paths, _index).path \in 1.._paths

\* C20 witness: reload() found one frame where there were two and the cursor
\* stood on the second; the cursor is back on the first.
C20_Witness ==
    /\ arg.last = "reload"
    /\ arg.paths0 = 2 /\ arg.index0 = 1
    /\ _paths = 1 /\ _index = 0

-----------------------------------------------------------------------------
(* displayBuses.show_bus_arrivals(epd): the transit step of a day           *)
(* iteration, after the frames presented before it.  arg holds the three    *)
(* stops of the step (whether STOP_CODE_x is set, and the response its      *)
(* request gets), ret what the step did.                                    *)

Stop(code, resp) == [code |-> code, resp |-> resp]

Later == Service(1, <<NoSlot, TimeSlot(150), NoSlot>>)

Unresolved == Service(1, <<NoSlot, BadSlot, NoSlot>>)

\* a stop without code; a request that failed; a feed whose only service has
\* no timestamp; two feeds with data; a body that is a list
StopValues ==
    {Stop(FALSE, NoResponse),
     Stop(TRUE, Response(TRUE, "error", NoBody)),
     Stop(TRUE, Response(TRUE, "json", Body(ServiceList(<<Unresolved>>)))),
     Stop(TRUE, Response(TRUE, "json", Body(ServiceList(<<Good>>)))),
     Stop(TRUE, Response(TRUE, "json", Body(ServiceList(<<Later>>)))),
     Stop(TRUE, Response(TRUE, "json", [t |-> "list", services |-> NoItems("absent")]))}

\* get_bus_arrival(code) if code else []
Route(stop) ==
    IF stop.code THEN get_bus_arrival(stop.resp) ELSE Returns(<<>>)

FetchResult(stop) ==
    IF ~stop.code THEN "unset"
    ELSE IF Route(stop).raised THEN "raises"
    ELSE IF Route(stop).out = <<>> THEN "empty"
    ELSE "data"

\* stops_payload
StopsPayload(a, b, c) ==
    <<[name |-> "A", routes |-> Route(a).out],
      [name |-> "B", routes |-> Route(b).out],
      [name |-> "C", routes |-> Route(c).out]>>

Did(renders, payload, presents, failed) ==
    [done |-> TRUE, renders |-> renders, payload |-> payload,
     presents |-> presents, failed |-> failed,
     base0 |-> _base_set, count0 |-> _call_count]

InitTransit ==
    /\ InitCommon
    /\ IMAGES_PER_CYCLE = 0
    /\ _paths = 0
    /\ pc = "transit"
    /\ arg = <<>>
    /\ ret = [done |-> FALSE]

\* a frame presented before the transit step
TransitFrame ==
    /\ pc = "transit"
    /\ ~ret.done
    /\ nth < MaxPresents
    /\ \E r \in DisplayResults : Display(r)
    /\ UNCHANGED <<fnVars, cfgVars, seqVars, sigVars, initFailed, pc, loop_i, frame_i,
                   waited, exc, uncaught, observed, teardown>>

TransitStep ==
    /\ pc = "transit"
    /\ ~ret.done
    /\ \E a \in StopValues, b \in StopValues, c \in StopValues :
          /\ arg' = <<a, b, c>>
          /\ LET o == TransitOutcome(FetchResult(a), FetchResult(b), FetchResult(c))
             IN CASE o = "return" ->
                       NoCall /\ ret' = Did(0, <<>>, 0, FALSE)
                  [] o = "raise" ->
                       NoCall /\ ret' = Did(0, <<>>, 0, TRUE)
                  [] o = "render" ->
                       \E buffered \in BOOLEAN :
                          IF buffered
                          THEN \E r \in DisplayResults :
                                  /\ Display(r)
                                  /\ ret' = Did(1, StopsPayload(a, b, c), 1, r.raised)
                          ELSE /\ NoCall
                               /\ ret' = Did(1, StopsPayload(a, b, c), 0, TRUE)
    /\ UNCHANGED <<cfgVars, seqVars, sigVars, initFailed, pc, loop_i, frame_i, waited,
                   exc, uncaught, observed, teardown>>

NextTransit == TransitFrame \/ TransitStep

SpecTransit == InitTransit /\ [][NextTransit]_vars

\* the stop is configured, the step got as far as asking for it (no
\* request before it raised) and its request gave at least one record
Yields(stops, i) ==
    /\ stops[i].code
    /\ \A j \in 1..i : ~(stops[j].code /\ get_bus_arrival(stops[j].resp).raised)
    /\ get_bus_arrival(stops[i].resp).out # <<>>

\* what the column of a stop shows: its records, none for a stop that is
\* not configured or gave none
Column(stops, i) ==
    IF Yields(stops, i) THEN get_bus_arrival(stops[i].resp).out ELSE <<>>

\* C12: a transit step renders and presents the screen exactly once iff at
\* least one configured stop yields a non-empty result, the columns being
\* those of A, B, C in this order; it renders and presents nothing and
\* leaves _base_set and _call_count alone when no stop yields anything.
\* (Steps in which the rendering or epd.getbuffer itself raised are left
\* out of the first part.)
C12_TransitRendersIffData ==
    ret.done =>
        LET any == \E i \in 1..3 : Yields(arg, i)
        IN /\ (ret.renders = 1 /\ ret.presents = 0) \/
                 ((ret.renders = 1 /\ ret.presents = 1) <=> any)
           /\ ret.renders = 1 =>
                 /\ Len(ret.payload) = 3
                 /\ \A i \in 1..3 : ret.payload[i].routes = Column(arg, i)
                 /\ <<ret.payload[1].name, ret.payload[2].name,
                      ret.payload[3].name>> = <<"A", "B", "C">>
           /\ ~any => /\ ret.renders = 0 /\ ret.presents = 0
                      /\ _base_set = ret.base0 /\ _call_count = ret.count0

-----------------------------------------------------------------------------
(* Properties of the proxy, under SpecProxy *)

\* a present() with partial refresh enabled and no baseline-establishing
\* present() since the last init() that returned or Clear() call
FirstPresent == op' = "display" /\ _enabled /\ nth = -1

\* C1 as stated: the first present() after init()/Clear() issues a full
\* refresh, no partial one, and always leaves _base_set = TRUE and
\* _call_count = 1.
C1_Original ==
    [][FirstPresent =>
         /\ hw'[1].op = "display"
         /\ "displayPartial" \notin Ops(hw')
         /\ _base_set' = TRUE
         /\ _call_count' = 1]_vars

\* C1 amended: the first present() after init()/Clear() issues exactly one
\* full refresh and no partial one; when that display call returns, the proxy
\* is left with _base_set = TRUE and _call_count = 1 and present() returns
\* normally whatever displayPartBaseImage did; when the display call itself
\* raises, present() raises and the state stays _base_set = FALSE,
\* _call_count = 0.
C1_FirstPresentFull ==
    [][FirstPresent =>
         /\ hw'[1].op = "display"
         /\ CountOp(hw', "display") = 1
         /\ "displayPartial" \notin Ops(hw')
         /\ IF hw'[1].ok
            THEN /\ _base_set' = TRUE /\ _call_count' = 1 /\ ~raised'
                 /\ Len(hw') = 2 /\ hw'[2].op = "displayPartBaseImage"
            ELSE /\ raised'
                 /\ _base_set' = FALSE /\ _call_count' = 0
                 /\ _base_set = FALSE /\ _call_count = 0]_vars

\* C1 witness: a first present() whose displayPartBaseImage failed, and which
\* returned normally with the baseline set.
C1_Witness ==
    /\ op = "display" /\ _enabled /\ nth = 0 /\ ~raised
    /\ hw = <<Call("display", TRUE), Call("displayPartBaseImage", FALSE)>>
    /\ _base_set /\ _call_count = 1

\* a present() after the baseline-establishing one, with a positive cadence;
\* it is the N-th subsequent one for N = nth'
SubsequentPresent ==
    op' = "display" /\ _enabled /\ _full_every_n > 0 /\ nth >= 0

\* C2 as stated: the N-th present() after the baseline-establishing one is a
\* full refresh when N mod fullEveryN = 0 and a partial one otherwise.
C2_Original ==
    [][SubsequentPresent =>
         hw'[1].op = (IF nth' % _full_every_n = 0 THEN "display"
                      ELSE "displayPartial")]_vars

\* C2 amended: the N-th present() after the baseline-establishing one is a
\* full refresh (and no partial one) when (N + 1) mod fullEveryN = 0, the
\* counter including the first present(); every other one attempts a partial
\* refresh, and issues nothing else when that succeeds.
C2_ForcedFullCadence ==
    [][SubsequentPresent =>
         IF (nth' + 1) % _full_every_n = 0
         THEN hw'[1].op = "display" /\ "displayPartial" \notin Ops(hw')
         ELSE /\ hw'[1].op = "displayPartial"
              /\ (hw'[1].ok => Len(hw') = 1)]_vars

\* C2 witness: with fullEveryN = 3 the 2nd subsequent present() was a full
\* refresh.
C2_Witness ==
    /\ op = "display" /\ _enabled /\ _full_every_n = 3 /\ nth = 2
    /\ hw[1].op = "display" /\ _call_count = 3

\* C4: after init() returns, and after Clear() (returned or raised), the
\* proxy has _base_set = FALSE and _call_count = 0, and the call went to the
\* hardware exactly once.
C4_ResetOnInitClear ==
    ((op = "init" /\ ~raised) \/ op = "Clear") =>
        /\ _base_set = FALSE
        /\ _call_count = 0
        /\ Len(hw) = 1 /\ hw[1].op = op

\* C4 witness: Clear() was called on a proxy that had presented (a raw
\* display had completed and the raw Clear() did not), and the state is reset.
C4_Witness ==
    /\ op = "Clear" /\ raised /\ _enabled /\ fullSince
    /\ hw = <<Call("Clear", FALSE)>>
    /\ _base_set = FALSE /\ _call_count = 0

\* the latest step was a present() whose displayPartial failed
PartialFailed(o, calls) ==
    o = "display" /\ Len(calls) >= 1 /\ calls[1].op = "displayPartial"
                  /\ ~calls[1].ok

\* C5: a present() whose displayPartial fails issues exactly one full
\* display as fallback, raises only if that fallback itself fails, leaves
\* _base_set = TRUE, and the next present() attempts a partial refresh again
\* unless its incremented counter is a multiple of fullEveryN.
C5_PartialFallback ==
    [][/\ PartialFailed(op', hw') =>
            /\ Len(hw') = 2 /\ hw'[2].op = "display"
            /\ raised' = ~hw'[2].ok
            /\ _base_set /\ _base_set'
       /\ (PartialFailed(op, hw) /\ op' = "display") =>
            hw'[1].op =
               (IF _full_every_n > 0 /\ (_call_count + 1) % _full_every_n = 0
                THEN "display" ELSE "displayPartial")]_vars

\* C5 witness: displayPartial failed, the fallback display succeeded, and
\* present() returned normally with the baseline kept.
C5_Witness ==
    /\ op = "display" /\ ~raised /\ _base_set
    /\ hw = <<Call("displayPartial", FALSE), Call("display", TRUE)>>

\* a present() with partial refresh enabled and the baseline established
BasedPresent == op' = "display" /\ _enabled /\ _base_set

\* a present() with the baseline established that starts with a full
\* refresh: the periodic forced one
ForcedPresent == BasedPresent /\ hw'[1].op = "display"

\* C23 as stated: _call_count is 0 or 1 after init(), after Clear(), after
\* the first present() after a reset and after each forced full refresh
\* that re-establishes the partial base (calls whose hardware call raised
\* left aside).
C23_Original ==
    [][(\/ op' = "Clear"
        \/ op' = "init" /\ ~raised'
        \/ op' = "display" /\ _enabled /\ ~_base_set /\ hw'[1].ok
        \/ ForcedPresent /\ Len(hw') = 2 /\ hw'[2].ok)
           => _call_count' \in {0, 1}]_vars

\* C23 amended: _call_count becomes 0 on every init() that returns and on
\* every Clear(), and 1 on the first present() after a reset whose full
\* refresh returns; a forced full refresh does not reset it (it keeps the
\* incremented value), and no other call resets it: sleep(), a failed init()
\* and a failed first present() leave it alone, every other present() adds
\* one to a value of at least 1.
C23_CountResets ==
    [][/\ (op' = "Clear" \/ (op' = "init" /\ ~raised')) => _call_count' = 0
       /\ (op' = "display" /\ _enabled /\ ~_base_set /\ hw'[1].ok)
             => _call_count' = 1
       /\ ForcedPresent =>
             _call_count' = _call_count + 1 /\ _call_count' > 1
       /\ (BasedPresent /\ ~ForcedPresent) =>
             _call_count' = _call_count + 1 /\ _call_count' > 1
       /\ (\/ op' = "sleep"
           \/ op' = "init" /\ raised'
           \/ op' = "display" /\ ~_enabled
           \/ op' = "display" /\ _enabled /\ ~_base_set /\ ~hw'[1].ok)
             => _call_count' = _call_count]_vars

\* C23 witness: with fullEveryN = 2 a forced full refresh re-established the
\* partial base on the fourth present() and the counter stands at 4.
C23_Witness ==
    /\ op = "display" /\ _enabled /\ _full_every_n = 2 /\ _base_set
    /\ hw = <<Call("display", TRUE), Call("displayPartBaseImage", TRUE)>>
    /\ _call_count = 4

\* C24: __init__ leaves _full_every_n >= 0 (a negative setting becomes 0);
\* with the baseline established each present() adds exactly one to
\* _call_count, keeps _base_set, and starts with a full refresh exactly when
\* fullEveryN > 0 and the incremented counter is a multiple of it: never for
\* fullEveryN = 0, always for fullEveryN = 1, at fullEveryN, 2 fullEveryN,
\* ... otherwise.
C24_ForcedFullOnMultiples ==
    /\ [](_full_every_n >= 0)
    /\ [][BasedPresent =>
            /\ _call_count' = _call_count + 1
            /\ _base_set'
            /\ (hw'[1].op = "display") <=>
                  (_full_every_n > 0 /\ _call_count' % _full_every_n = 0)
            /\ (hw'[1].op = "display") <=>
                  (\E k \in 1..(_call_count') :
                       _call_count' = k * _full_every_n)
            /\ _full_every_n = 0 => hw'[1].op = "displayPartial"
            /\ _full_every_n = 1 => hw'[1].op = "display"]_vars

\* C24 witness: with fullEveryN = 3 the counter reached 6 on a second
\* forced full refresh.
C24_Witness ==
    /\ op = "display" /\ _enabled /\ _full_every_n = 3 /\ _base_set
    /\ hw[1].op = "display" /\ _call_count = 6

\* C25: with partial refresh disabled every present() issues exactly one
\* raw display, no displayPartial and no displayPartBaseImage, and leaves
\* _base_set and _call_count as they were.
C25_DisabledPassThrough ==
    [][(op' = "display" /\ ~_enabled) =>
          /\ Len(hw') = 1 /\ hw'[1].op = "display"
          /\ raised' = ~hw'[1].ok
          /\ _base_set' = _base_set /\ _call_count' = _call_count]_vars

\* C25 witness: a third present() with partial refresh disabled, the proxy
\* state still as constructed.
C25_Witness ==
    /\ op = "display" /\ ~_enabled /\ nth = 2
    /\ hw = <<Call("display", TRUE)>>
    /\ _base_set = FALSE /\ _call_count = 0

-----------------------------------------------------------------------------
(* Properties of main(), under Spec *)

\* C3: no displayPartial is issued to the hardware unless a raw display has
\* completed since the panel last completed a sleep, init or Clear.
C3_NoBlindPartial == [][~BlindPartial(fullSince, hw')]_vars

\* C6: no exception raised in an iteration ends the while loop; the loop
\* ends only through the shutdown flag or a KeyboardInterrupt.
C6_LoopSurvivesExceptions == exc \in {"none", "shutdown", "KeyboardInterrupt"}

\* C7: when epd.sleep() or the re-init epd.init() raises, main() is still in
\* the loop: after a failed sleep() it stands at the start of the
\* interruptible wait, after a failed init() at the top of the loop.
C7_SleepInitFailureContinues ==
    /\ (op = "sleep" /\ raised) =>
          pc \in {"night_wait", "day_wait"} /\ waited = 0 /\ exc = "none"
    /\ (op = "init" /\ raised) => pc = "loop_top" /\ exc = "none"

\* C7 witness: the panel sleep() of a day iteration raised and main() stands
\* at the wait.
C7_Witness ==
    /\ op = "sleep" /\ raised /\ hw = <<Call("sleep", FALSE)>>
    /\ pc = "day_wait" /\ exc = "none" /\ loop_i >= 1

\* C8: once main() has read the shutdown flag as set, the only hardware calls
\* it issues are the Clear and the release of the teardown.
C8_NoHardwareAfterObserved ==
    observed => Ops(hw) \subseteq {"Clear", "module_exit"}

WaitPcs == {"night_wait", "night_slice", "day_wait", "day_slice"}

\* C9: when SIGTERM arrives inside an interruptible wait, the wait sleeps no
\* slice beyond the one in progress, and main() starts no new iteration and
\* issues no init (nothing but the teardown calls) from then on.
C9_ShutdownInWaitExits ==
    sigAt \in WaitPcs =>
        /\ waited <= sigWaited +
                     (IF sigAt \in {"night_slice", "day_slice"} THEN 1 ELSE 0)
        /\ loop_i = sigLoop
        /\ Ops(hw) \subseteq {"Clear", "module_exit"}
        /\ pc \in WaitPcs \cup {"night_init", "day_init", "loop_top",
                                "finally_clear", "finally_exit", "done"}

\* C9 witness: SIGTERM arrived during the first slice of a day wait, that
\* slice completed, no other did, and the loop was left through the flag.
C9_Witness ==
    /\ sigAt = "day_slice" /\ sigWaited = 0 /\ waited = 1
    /\ waited < WaitSlices
    /\ pc = "finally_clear" /\ exc = "shutdown" /\ loop_i = sigLoop

\* C10: however the loop is left, the finally block issues exactly one Clear
\* and then the release, also when Clear raises, and no exception of the
\* teardown leaves main().
C10_TeardownClearsThenReleases ==
    /\ (exc # "none") <=> (pc \in {"finally_clear", "finally_exit", "done"})
    /\ pc = "finally_clear" => teardown = <<>>
    /\ pc = "finally_exit" => Len(teardown) = 1 /\ teardown[1].op = "Clear"
    /\ pc = "done" =>
          /\ Len(teardown) = 2
          /\ teardown[1].op = "Clear"
          /\ teardown[2].op = "module_exit"
          /\ (uncaught => exc = "Exception")
    /\ pc # "done" => ~uncaught

\* C10 witness: the loop was left through the flag, Clear raised, and the
\* release was still called.
C10_Witness ==
    /\ pc = "done" /\ exc = "shutdown" /\ ~uncaught
    /\ teardown = <<Call("Clear", FALSE), Call("module_exit", TRUE)>>

DayAfterFrames == {"day_bus", "day_sleep", "day_wait", "day_slice", "day_init"}

\* main() moves on from `at` inside the loop (no exception or Ctrl-C takes
\* it to the finally block)
MovesOn(at) == pc = at /\ pc' # at /\ pc' # "finally_clear"

\* C21: in a day iteration during which the shutdown flag stays clear the
\* frame loop makes exactly IMAGES_PER_CYCLE attempts, each advancing the
\* cursor by one whatever the present did (no present and no error without
\* frames); then come the transit step, the panel sleep(), the wait and
\* init(), in this order.
C21_DayIterationOrder ==
    /\ []((~_shutdown /\ pc \in DayAfterFrames) => frame_i = IMAGES_PER_CYCLE)
    /\ [][/\ (pc = "day_frames" /\ ~_shutdown /\ frame_i' = frame_i + 1) =>
             /\ pc' = "day_frames" /\ exc' = "none"
             /\ (_paths' > 0 =>
                   _index' = ((IF _paths > 0 THEN _index ELSE 0) + 1) % _paths')
             /\ (_paths' = 0 => (hw' = <<>> /\ op' = ""))
          /\ MovesOn("day_frames") => pc' = "day_bus"
          /\ MovesOn("day_bus") => pc' = "day_sleep"
          /\ MovesOn("day_sleep") => pc' = "day_wait" /\ op' = "sleep"
          /\ MovesOn("day_wait") => pc' \in {"day_slice", "day_init"}
          /\ MovesOn("day_slice") => pc' = "day_wait"
          /\ MovesOn("day_init") =>
                pc' = "loop_top" /\ (~_shutdown => op' = "init")]_vars

NightPcs == {"night_show", "night_sleep", "night_wait", "night_slice",
             "night_init"}

\* main() takes a step at `at` other than through a Ctrl-C
Steps(at) == pc = at /\ pc' # at /\ exc' # "KeyboardInterrupt"

\* C22: a night iteration presents at most once (the sleep image), then
\* calls sleep(), then waits, then calls init() iff the shutdown flag is not
\* set; whether or not the image was presented, and whether or not that
\* raised, sleep() and the wait follow; the frame cursor is left alone and
\* the iteration never reaches the transit step.
C22_NightIterationOrder ==
    [][/\ Steps("night_show") =>
             /\ pc' = "night_sleep" /\ exc' = "none"
             /\ op' \in {"display", ""}
       /\ Steps("night_sleep") =>
             /\ pc' = "night_wait" /\ exc' = "none"
             /\ op' = "sleep" /\ hw'[1].op = "sleep" /\ waited' = 0
       /\ Steps("night_wait") =>
             /\ pc' \in {"night_slice", "night_init"} /\ hw' = <<>>
             /\ (pc' = "night_init" => (waited = WaitSlices \/ _shutdown))
       /\ Steps("night_slice") => pc' = "night_wait" /\ hw' = <<>>
       /\ Steps("night_init") =>
             /\ pc' = "loop_top" /\ exc' = "none"
             /\ ((op' = "init") <=> ~_shutdown)
             /\ (_shutdown => hw' = <<>>)
       /\ pc \in NightPcs =>
             /\ _index' = _index /\ _paths' = _paths
             /\ pc' \in NightPcs \cup {"loop_top", "finally_clear"}
             /\ (pc' = "finally_clear" => exc' = "KeyboardInterrupt")]_vars

\* C22 witness: the present of the sleep image raised and main() stands at
\* the panel sleep() of the night iteration.
C22_Witness ==
    /\ pc = "night_sleep" /\ exc = "none"
    /\ op = "display" /\ raised /\ hw = <<Call("display", FALSE)>>

\* max(1, images-per-cycle) + 1
MostPresents == (IF IMAGES_PER_CYCLE >= 1 THEN IMAGES_PER_CYCLE ELSE 1) + 1

\* C26: as long as no re-init has raised, _call_count never exceeds
\* max(1, IMAGES_PER_CYCLE) + 1 and every iteration starts from the reset
\* proxy; the first present() since then is a full refresh and a periodic
\* forced full refresh occurs only if fullEveryN <= max(1, IMAGES_PER_CYCLE)
\* + 1.
C26_CountBoundedPerIteration ==
    /\ [](~initFailed =>
            /\ _call_count <= MostPresents
            /\ ((pc = "loop_top" /\ ~_shutdown) =>
                  (_call_count = 0 /\ ~_base_set /\ nth = -1)))
    /\ [][~initFailed' =>
            /\ ((op' = "display" /\ nth = -1) =>
                  (hw'[1].op = "display" /\ "displayPartial" \notin Ops(hw')))
            /\ (ForcedPresent => _full_every_n <= MostPresents)]_vars

\* C26 witness: second iteration, IMAGES_PER_CYCLE = 2, fullEveryN = 3: the
\* transit screen was the third present() since the re-init and a forced
\* full refresh.
C26_Witness ==
    /\ ~initFailed /\ loop_i = 2 /\ pc = "day_sleep"
    /\ IMAGES_PER_CYCLE = 2 /\ _full_every_n = 3 /\ _enabled
    /\ op = "display" /\ hw[1].op = "display" /\ _call_count = 3

====
